---- MODULE Spec2Model ----
(***************************************************************************)
(* awstail (src/src/index.ts): the bounded fetch, the cursor-advancing     *)
(* poll loop, the render pass and the interactive filter, as one state     *)
(* machine.  A step of the machine is one turn of the node event loop: the *)
(* code that runs from one suspension point (an awaited request, the       *)
(* sleep timer, a yield to the consumer) to the next, or one input         *)
(* handler (a keystroke chunk, a signal) run to completion.                *)
(***************************************************************************)
EXTENDS Integers, Sequences, FiniteSets, TLC

(***************************************************************************)
(* Bounds of the model.                                                    *)
(***************************************************************************)
MaxBatch == 2       \* events in one response page
MaxFetched == 3     \* events one bounded fetch accumulates over its pages
MaxNow == 2         \* the clock runs from Since to MaxNow
Since == 1          \* the lookback, in clock ticks (parseTimeFormat's result)
MaxPattern == 4     \* pattern length, keystroke-only specification
MainPattern == 1    \* pattern length, specifications of the whole program
MaxSinceLen == 3    \* length of the --since string, lookback specification
MaxFrags == 2       \* fragments of a message, formatting specification
MaxAmount == 23     \* the number the --since string may spell (24 days of
                    \* milliseconds is the most a 32-bit integer holds)

(***************************************************************************)
(* The events the log source may hold (FilteredLogEvent: every field is    *)
(* optional).  Messages are sequences of UTF-16 code units.  An event is   *)
(* identified by its index.                                                *)
(***************************************************************************)
Universe ==
    << [timestamp |-> 2, message |-> <<69, 114, 114>>],   \* "Err"
       [timestamp |-> 1, message |-> <<111, 107>>],       \* "ok"
       [timestamp |-> 2],                                 \* no message
       [message |-> <<65>>] >>                            \* "A", no timestamp

EventIds == DOMAIN Universe

Undefined == "undefined"
TokenNames == <<"t1", "t2">>
Tokens == {TokenNames[i] : i \in DOMAIN TokenNames}

Batches(S) == UNION {[1..n -> S] : n \in 0..MaxBatch}

\* FilterLogEventsCommandOutput: events and nextToken are both optional.
AnyResponses ==
    [events : Batches(EventIds), nextToken : Tokens \cup {Undefined}]
        \cup [nextToken : Tokens \cup {Undefined}]

VARIABLES
    since,              \* argv.flags.since, a string
    tail,               \* opts.tail
    isTTY,              \* stdin.isTTY
    startTime,          \* opts.startTime
    now,                \* Date.now()
    visible,            \* the events the source holds
    pc,                 \* where main() is suspended
    inflight,           \* the request awaiting its response (at most one)
    events,             \* fetchLogs: events; main: initialEvents
    currentStartTime,   \* streamLogs: the cursor
    batch,              \* streamLogs: the events of the current poll
    emitted,            \* how many events of batch have been yielded
    filterState,        \* InteractiveFilter.filterState
    rawMode,            \* stdin raw mode
    readlineOpen,       \* InteractiveFilter.readline not yet closed
    exitCode,           \* <<code>> once the process has exited, <<>> before
    out,                \* what the last step wrote to the terminal, in order
    screen,             \* the terminal: the line the cursor is on, the line above it
    rendered,           \* history: the events printed so far
    dupAcross,          \* history: an event of an earlier batch was printed again
    arrived,            \* history: the events of the pages of the bounded fetch, as they arrived
    lastToken,          \* history: the nextToken of the last response of the bounded fetch, "none" before it
    failedAt,           \* history: where a request failed
    lastPoll,           \* history: the events field of the last poll response
    interrupt,          \* history: the interrupt that was delivered, and where
    received,           \* history: <<response>> if the last step received one, <<>> otherwise
    lastKey,            \* history: the last keystroke chunk (keystroke-only specification)
    logMessage,         \* formatLogEntry: the message being formatted
    logLevel,           \* formatLogEntry: what extractLogLevel returned, <<>> before
    requestId           \* formatLogEntry: what extractRequestId returned, <<>> before

vars == << since, tail, isTTY, startTime, now, visible, pc, inflight, events,
           currentStartTime, batch, emitted, filterState, rawMode,
           readlineOpen, exitCode, out, rendered, dupAcross, arrived,
           lastToken, failedAt, lastPoll, interrupt, received, lastKey,
           logMessage, logLevel, requestId, screen >>

progVars == << pc, inflight, events, currentStartTime, batch, emitted >>
filterVars == << filterState, rawMode, readlineOpen >>
histVars == << rendered, dupAcross, arrived, lastToken, failedAt, lastPoll,
              interrupt >>
envVars == << since, tail, isTTY, startTime, now, visible >>
fmtVars == << logMessage, logLevel, requestId >>

(***************************************************************************)
(* Pure helpers of the code.                                               *)
(***************************************************************************)
\* e.timestamp ?? 0
Timestamp(e) ==
    IF "timestamp" \in DOMAIN Universe[e] THEN Universe[e].timestamp ELSE 0

\* event.message ?? ""
Message(e) ==
    IF "message" \in DOMAIN Universe[e] THEN Universe[e].message ELSE <<>>

\* Math.max(...xs), xs non-empty
RECURSIVE MathMax(_)
MathMax(xs) ==
    IF Len(xs) = 1 THEN xs[1]
    ELSE LET m == MathMax(Tail(xs)) IN IF xs[1] > m THEN xs[1] ELSE m

\* Math.max(...events.map((e) => e.timestamp ?? 0)) + 1
NewCursor_last(evs) == Timestamp(evs[Len(evs)]) + 1
NewCursor_nostep(evs) == MathMax([i \in 1..Len(evs) |-> Timestamp(evs[i])])
NewCursor(evs) == MathMax([i \in 1..Len(evs) |-> Timestamp(evs[i])]) + 1

\* response.events?.length
HasEvents(resp) == "events" \in DOMAIN resp /\ Len(resp.events) > 0

\* while (nextToken)
Truthy(token) == token # Undefined /\ token # ""

\* { ...params, nextToken } / params of streamLogs
Request(start, token) == [startTime |-> start, nextToken |-> token]

\* String.prototype.toLowerCase on the code units used here
ToLowerCase(s) ==
    [i \in 1..Len(s) |-> IF s[i] >= 65 /\ s[i] <= 90 THEN s[i] + 32 ELSE s[i]]

\* String.prototype.includes
Includes(s, p) ==
    \E i \in 0..(Len(s) - Len(p)) : SubSeq(s, i + 1, i + Len(p)) = p

(***************************************************************************)
(* InteractiveFilter.                                                      *)
(***************************************************************************)
CtrlC == <<3>>
Backspace == {<<127>>, <<8>>}
Delete == <<27, 91, 51, 126>>
Escape == <<27>>

IsPrintable_wide(key) == Len(key) = 1 /\ key[1] >= 32
IsPrintable(key) == Len(key) = 1 /\ key[1] >= 32 /\ key[1] <= 126

addToFilter(fs, char) == [pattern |-> fs.pattern \o char, isActive |-> TRUE]

handleBackspace_keepActive(fs) ==
    IF Len(fs.pattern) > 0
    THEN [fs EXCEPT !.pattern = SubSeq(fs.pattern, 1, Len(fs.pattern) - 1)]
    ELSE fs

handleBackspace(fs) ==
    IF Len(fs.pattern) > 0
    THEN LET p == SubSeq(fs.pattern, 1, Len(fs.pattern) - 1)
         IN  [pattern |-> p, isActive |-> IF Len(p) = 0 THEN FALSE ELSE fs.isActive]
    ELSE fs

handleDelete(fs) == handleBackspace(fs)

clearFilter(fs) == [pattern |-> <<>>, isActive |-> FALSE]

\* updateStatusLine: erase the line, then the status text if the filter is active
updateStatusLine(fs) ==
    <<"erase">> \o (IF fs.isActive THEN <<"status">> ELSE <<>>)

shouldDimLine_caseSensitive(fs, message) ==
    IF ~fs.isActive \/ fs.pattern = <<>>
    THEN FALSE
    ELSE ~Includes(message, fs.pattern)

shouldDimLine(fs, message) ==
    IF ~fs.isActive \/ fs.pattern = <<>>
    THEN FALSE
    ELSE ~Includes(ToLowerCase(message), ToLowerCase(fs.pattern))

cleanup_none == UNCHANGED << rawMode, readlineOpen >>

cleanup ==
    /\ rawMode' = (IF isTTY THEN FALSE ELSE rawMode)
    /\ readlineOpen' = FALSE

\* process.exit(code): nothing of the program runs afterwards
Exit(code) ==
    /\ pc' = "exit"
    /\ exitCode' = <<code>>
    /\ inflight' = {}

\* input delivered wherever main is, between two yields as well
Listening_anywhere == tail /\ pc \in {"fetch", "stream", "emit", "sleep"}

\* input delivered only while no request is outstanding
Listening_idle == tail /\ pc = "sleep"

\* main is suspended on a request or on the sleep timer, so the event loop
\* can deliver input; the listeners exist only in tail mode (lines 478-491)
Listening == tail /\ pc \in {"fetch", "stream", "sleep"}

\* The terminal.  A line is a sequence of the things written on it: the
\* status text (with the pattern it shows) or printed text.  "\r\x1b[K"
\* empties the line the cursor is on, the status text is appended to it
\* (process.stdout.write, no newline), console.log and console.error append
\* their text and move the cursor to a new, empty line.
StatusText(fs) == [kind |-> "status", text |-> fs.pattern]
PrintedText(what) ==
    [kind |-> IF what \in {"line", "dimmed"} THEN "log" ELSE what, text |-> <<>>]

RECURSIVE Draw(_, _, _)
Draw(scr, writes, fs) ==
    IF writes = <<>> THEN scr
    ELSE LET w == Head(writes)
             next == IF w = "erase" THEN [scr EXCEPT !.bottom = <<>>]
                     ELSE IF w = "status"
                     THEN [scr EXCEPT !.bottom = Append(scr.bottom, StatusText(fs))]
                     ELSE [above |-> Append(scr.bottom, PrintedText(w)),
                           bottom |-> <<>>]
         IN  Draw(next, Tail(writes), fs)

\* what a keystroke handler writes: addToFilter and clearFilter call
\* updateStatusLine, handleBackspace calls it inside its length guard
KeyWrites_unguarded(before, key, after) ==
    IF key \in Backspace \/ key = Delete \/ key = Escape \/ IsPrintable(key)
    THEN updateStatusLine(after)
    ELSE <<>>

KeyWrites(before, key, after) ==
    IF \/ key \in Backspace /\ Len(before.pattern) > 0
       \/ key = Delete /\ Len(before.pattern) > 0
       \/ key = Escape
       \/ IsPrintable(key)
    THEN updateStatusLine(after)
    ELSE <<>>

handleKeyPress(key) ==
    /\ Listening
    /\ received' = <<>>
    /\ IF key = CtrlC
       THEN /\ cleanup
            /\ Exit(0)
            /\ interrupt' = <<"key", pc>>
            /\ UNCHANGED << filterState, out, screen >>
       ELSE /\ filterState' =
                 IF key \in Backspace THEN handleBackspace(filterState)
                 ELSE IF key = Delete THEN handleDelete(filterState)
                 ELSE IF key = Escape THEN clearFilter(filterState)
                 ELSE IF IsPrintable(key) THEN addToFilter(filterState, key)
                 ELSE filterState
            /\ out' = KeyWrites(filterState, key, filterState')
            /\ screen' = Draw(screen, out', filterState')
            /\ UNCHANGED << pc, exitCode, inflight, rawMode, readlineOpen, interrupt >>
    /\ UNCHANGED << events, currentStartTime, batch, emitted, envVars, fmtVars,
                    rendered, dupAcross, arrived, lastToken, failedAt, lastPoll >>

\* process.on("SIGINT" / "SIGTERM")
Signal(sig) ==
    /\ Listening
    /\ cleanup
    /\ Exit(0)
    /\ interrupt' = <<sig, pc>>
    /\ received' = <<>>
    /\ out' = <<>>
    /\ screen' = Draw(screen, out', filterState)
    /\ UNCHANGED << filterState, events, currentStartTime, batch, emitted,
                    envVars, fmtVars, lastKey, rendered, dupAcross, arrived, lastToken, failedAt,
                    lastPoll >>

(***************************************************************************)
(* fetchLogs.                                                              *)
(***************************************************************************)
FetchAppend_replace(evs, resp) == IF HasEvents(resp) THEN resp.events ELSE evs
FetchAppend(evs, resp) == IF HasEvents(resp) THEN evs \o resp.events ELSE evs

FetchNextRequest(resp) == Request(startTime, resp.nextToken)

\* one iteration of the do-while: a response arrived
FetchReceive(resp) ==
    /\ pc = "fetch"
    /\ inflight # {}
    /\ events' = FetchAppend(events, resp)
    /\ IF Truthy(resp.nextToken)
       THEN /\ inflight' = {FetchNextRequest(resp)}
            /\ pc' = "fetch"
       ELSE /\ inflight' = {}
            /\ pc' = "fetched"
    /\ arrived' = arrived \o (IF "events" \in DOMAIN resp THEN resp.events ELSE <<>>)
    /\ lastToken' = resp.nextToken
    /\ received' = <<resp>>
    /\ out' = <<>>
    /\ screen' = Draw(screen, out', filterState)
    /\ UNCHANGED << currentStartTime, batch, emitted, filterVars, exitCode,
                    envVars, fmtVars, lastKey, rendered, dupAcross, failedAt, lastPoll, interrupt >>

(***************************************************************************)
(* main, after the bounded fetch.                                          *)
(***************************************************************************)
Range(s) == {s[i] : i \in 1..Len(s)}

\* lines 496-509: the notice, or one line per initial event
RenderInitial ==
    /\ pc = "fetched"
    /\ received' = <<>>
    /\ out' = IF Len(events) = 0 THEN <<"nologs">>
              ELSE [i \in 1..Len(events) |-> "line"]
    /\ rendered' = rendered \cup Range(events)
    /\ pc' = "rendered"
    /\ screen' = Draw(screen, out', filterState)
    /\ UNCHANGED << inflight, events, currentStartTime, batch, emitted,
                    filterVars, exitCode, envVars, fmtVars, lastKey, dupAcross, arrived,
                    lastToken, failedAt, lastPoll, interrupt >>

\* lines 512-516
StreamStartTime(evs) == IF Len(evs) > 0 THEN NewCursor(evs) ELSE now

\* a main that streams whether or not tail is set
StartStream_always ==
    /\ pc = "rendered"
    /\ currentStartTime' = StreamStartTime(events)
    /\ inflight' = {Request(currentStartTime', Undefined)}
    /\ pc' = "stream"
    /\ events' = <<>>       \* initialEvents is not read again
    /\ arrived' = <<>>
    /\ received' = <<>>
    /\ out' = <<>>
    /\ screen' = Draw(screen, out', filterState)
    /\ UNCHANGED << batch, emitted, filterVars, exitCode, envVars, fmtVars, lastKey, rendered,
                    dupAcross, lastToken, failedAt, lastPoll, interrupt >>

\* lines 512-518 and 419-430: enter streamLogs and send the first poll
StartStream ==
    /\ pc = "rendered"
    /\ tail
    /\ currentStartTime' = StreamStartTime(events)
    /\ inflight' = {Request(currentStartTime', Undefined)}
    /\ pc' = "stream"
    /\ events' = <<>>       \* initialEvents is not read again
    /\ arrived' = <<>>
    /\ received' = <<>>
    /\ out' = <<>>
    /\ screen' = Draw(screen, out', filterState)
    /\ UNCHANGED << batch, emitted, filterVars, exitCode, envVars, fmtVars, lastKey, rendered,
                    dupAcross, lastToken, failedAt, lastPoll, interrupt >>

\* line 512 with tail off: main returns, nothing keeps the process alive
MainReturn ==
    /\ pc = "rendered"
    /\ ~tail
    /\ Exit(0)
    /\ events' = <<>>
    /\ arrived' = <<>>
    /\ received' = <<>>
    /\ out' = <<>>
    /\ screen' = Draw(screen, out', filterState)
    /\ UNCHANGED << currentStartTime, batch, emitted, filterVars, envVars, fmtVars, lastKey,
                    rendered, dupAcross, lastToken, failedAt, lastPoll, interrupt >>

(***************************************************************************)
(* streamLogs.                                                             *)
(***************************************************************************)
\* lines 432-433: the cursor after a poll's response
StreamCursor_stale(cur, resp) == cur
StreamCursor_advance(cur, resp) ==
    IF HasEvents(resp) THEN NewCursor(resp.events) ELSE cur + 1
StreamCursor(cur, resp) == IF HasEvents(resp) THEN NewCursor(resp.events) ELSE cur

\* a poll that asks for the page its response names
StreamReceive_paged(resp) ==
    /\ pc = "stream"
    /\ inflight # {}
    /\ inflight' = IF Truthy(resp.nextToken)
                   THEN {Request(currentStartTime, resp.nextToken)}
                   ELSE {}
    /\ currentStartTime' = StreamCursor(currentStartTime, resp)
    /\ IF HasEvents(resp)
       THEN /\ batch' = resp.events
            /\ pc' = "emit"
       ELSE /\ batch' = <<>>
            /\ pc' = "sleep"
    /\ emitted' = 0
    /\ received' = <<resp>>
    /\ out' = <<>>
    /\ lastPoll' = IF "events" \notin DOMAIN resp THEN "absent"
                   ELSE IF Len(resp.events) = 0 THEN "empty" ELSE "events"
    /\ screen' = Draw(screen, out', filterState)
    /\ UNCHANGED << events, filterVars, exitCode, envVars, fmtVars, lastKey, rendered, dupAcross,
                    arrived, lastToken, failedAt, interrupt >>

\* lines 430-433, and 439 for an empty batch: the response of a poll arrived
StreamReceive(resp) ==
    /\ pc = "stream"
    /\ inflight # {}
    /\ inflight' = {}
    /\ currentStartTime' = StreamCursor(currentStartTime, resp)
    /\ IF HasEvents(resp)
       THEN /\ batch' = resp.events
            /\ pc' = "emit"
       ELSE /\ batch' = <<>>
            /\ pc' = "sleep"
    /\ emitted' = 0
    /\ received' = <<resp>>
    /\ out' = <<>>
    /\ lastPoll' = IF "events" \notin DOMAIN resp THEN "absent"
                   ELSE IF Len(resp.events) = 0 THEN "empty" ELSE "events"
    /\ screen' = Draw(screen, out', filterState)
    /\ UNCHANGED << events, filterVars, exitCode, envVars, fmtVars, lastKey, rendered, dupAcross,
                    arrived, lastToken, failedAt, interrupt >>

\* lines 527-555: the render pass of one event
RenderPass(e) ==
    IF tail     \* interactiveFilter is defined
    THEN <<"erase">>
         \o <<IF shouldDimLine(filterState, Message(e)) THEN "dimmed" ELSE "line">>
         \o (IF filterState.isActive THEN <<"status">> ELSE <<>>)
    ELSE <<"line">>

\* a loop that sleeps only after an empty batch
StreamEmit_busy ==
    /\ pc = "emit"
    /\ LET e == batch[emitted + 1]
       IN  /\ out' = RenderPass(e)
           /\ dupAcross' = (dupAcross \/ (e \in rendered
                                          /\ e \notin Range(SubSeq(batch, 1, emitted))))
           /\ rendered' = rendered \cup {e}
    /\ received' = <<>>
    /\ emitted' = emitted + 1
    /\ IF emitted' = Len(batch)
       THEN /\ pc' = "stream"
            /\ inflight' = {Request(currentStartTime, Undefined)}
       ELSE /\ pc' = "emit"
            /\ inflight' = inflight
    /\ screen' = Draw(screen, out', filterState)
    /\ UNCHANGED << events, currentStartTime, batch, filterVars,
                    exitCode, envVars, fmtVars, lastKey, arrived, lastToken, failedAt, lastPoll,
                    interrupt >>

\* lines 434-436 and 518-556: yield the next event, the consumer renders it;
\* after the last one line 439 starts the sleep
StreamEmit ==
    /\ pc = "emit"
    /\ LET e == batch[emitted + 1]
       IN  /\ out' = RenderPass(e)
           /\ dupAcross' = (dupAcross \/ (e \in rendered
                                          /\ e \notin Range(SubSeq(batch, 1, emitted))))
           /\ rendered' = rendered \cup {e}
    /\ received' = <<>>
    /\ emitted' = emitted + 1
    /\ IF emitted' = Len(batch)
       THEN /\ pc' = "sleep"
       ELSE /\ pc' = "emit"
    /\ screen' = Draw(screen, out', filterState)
    /\ UNCHANGED << inflight, events, currentStartTime, batch, filterVars,
                    exitCode, envVars, fmtVars, lastKey, arrived, lastToken, failedAt, lastPoll,
                    interrupt >>

\* a loop that ends after its first sleep
SleepDone_return ==
    /\ pc = "sleep"
    /\ Exit(0)
    /\ batch' = <<>>
    /\ emitted' = 0
    /\ out' = <<>>
    /\ received' = <<>>
    /\ screen' = Draw(screen, out', filterState)
    /\ UNCHANGED << events, currentStartTime, filterVars, envVars, fmtVars, lastKey,
                    histVars >>

\* line 439 done, lines 421-430 of the next iteration: the next poll is sent
SleepDone ==
    /\ pc = "sleep"
    /\ inflight' = {Request(currentStartTime, Undefined)}
    /\ pc' = "stream"
    /\ batch' = <<>>
    /\ emitted' = 0
    /\ received' = <<>>
    /\ out' = <<>>
    /\ screen' = Draw(screen, out', filterState)
    /\ UNCHANGED << events, currentStartTime, filterVars, exitCode, envVars, fmtVars, lastKey,
                    histVars >>

(***************************************************************************)
(* A request fails: client.send rejects, nothing catches it before         *)
(* main().catch (lines 560-563).                                           *)
(***************************************************************************)
OnError_retry ==
    /\ UNCHANGED << pc, exitCode, inflight >>

OnError ==
    /\ Exit(1)

RequestFails ==
    /\ pc \in {"fetch", "stream"}
    /\ inflight # {}
    /\ OnError
    /\ failedAt' = pc
    /\ received' = <<>>
    /\ out' = <<"error">>
    /\ screen' = Draw(screen, out', filterState)
    /\ UNCHANGED << events, currentStartTime, batch, emitted, filterVars,
                    envVars, fmtVars, lastKey, rendered, dupAcross, arrived, lastToken, lastPoll,
                    interrupt >>

(***************************************************************************)
(* The environment.                                                        *)
(***************************************************************************)
Tick ==
    /\ now < MaxNow
    /\ now' = now + 1
    /\ UNCHANGED << since, tail, isTTY, startTime, visible, progVars, filterVars,
                    exitCode, out, screen, histVars, received, lastKey, fmtVars >>

\* an event becomes visible at the source, at any time after it was logged
\* (or before: the source accepts timestamps ahead of the clock)
Ingest(e) ==
    /\ e \notin visible
    /\ visible' = visible \cup {e}
    /\ UNCHANGED << since, tail, isTTY, startTime, now, progVars, filterVars,
                    exitCode, out, screen, histVars, received, lastKey, fmtVars >>

(***************************************************************************)
(* Init: main() has run to its first suspension point, the first request   *)
(* of fetchLogs (lines 443-494 and 383-398).                               *)
(***************************************************************************)
Init ==
    /\ since = <<48 + Since, 115>>      \* "1s": a clock tick is one second
    /\ tail \in BOOLEAN
    /\ isTTY \in BOOLEAN
    /\ now = Since
    /\ startTime = now - Since
    /\ visible = {}
    /\ pc = "fetch"
    /\ inflight = {Request(startTime, Undefined)}
    /\ events = <<>>
    /\ currentStartTime = startTime
    /\ batch = <<>>
    /\ emitted = 0
    /\ filterState = [pattern |-> <<>>, isActive |-> FALSE]
    /\ rawMode = (tail /\ isTTY)
    /\ readlineOpen = tail
    /\ exitCode = <<>>
    /\ out = <<>>
    /\ screen = [above |-> <<>>, bottom |-> <<>>]
    /\ rendered = {}
    /\ dupAcross = FALSE
    /\ arrived = <<>>
    /\ lastToken = "none"
    /\ failedAt = "none"
    /\ lastPoll = "none"
    /\ interrupt = <<>>
    /\ received = <<>>
    /\ lastKey = <<>>
    /\ logMessage = <<>>
    /\ logLevel = <<>>
    /\ requestId = <<>>

\* the source keeps a bounded fetch within MaxFetched events
Fits(resp) ==
    ("events" \in DOMAIN resp) => (Len(arrived) + Len(resp.events) <= MaxFetched)

MainKeys == {CtrlC, <<127>>, Escape, <<97>>, <<27, 91, 65>>}

KeyPress(keys, cap) ==
    \E key \in keys :
        /\ IsPrintable(key) => Len(filterState.pattern) < cap
        /\ handleKeyPress(key)
        /\ UNCHANGED lastKey

\* the same, the chunk delivered recorded in lastKey
KeyLogged(keys, cap) ==
    \E key \in keys :
        /\ IsPrintable(key) => Len(filterState.pattern) < cap
        /\ handleKeyPress(key)
        /\ lastKey' = key

(***************************************************************************)
(* Spec: the source may answer a request with any page and any token, or   *)
(* fail.                                                                   *)
(***************************************************************************)
Next ==
    \/ \E resp \in AnyResponses : Fits(resp) /\ FetchReceive(resp)
    \/ RenderInitial
    \/ StartStream
    \/ MainReturn
    \/ \E resp \in AnyResponses : StreamReceive(resp)
    \/ StreamEmit
    \/ SleepDone
    \/ RequestFails
    \/ KeyPress(MainKeys, MainPattern)
    \/ \E sig \in {"SIGINT", "SIGTERM"} : Signal(sig)
    \/ Tick

Spec == Init /\ [][Next]_vars

(***************************************************************************)
(* HonestSpec: the source returns only events it holds whose timestamp is  *)
(* present and >= the startTime of the request (any selection, any order,  *)
(* any token), or fails.                                                   *)
(***************************************************************************)
Matching(start) ==
    {e \in visible : "timestamp" \in DOMAIN Universe[e]
                     /\ Universe[e].timestamp >= start}

HonestResponses(req) ==
    [events : Batches(Matching(req.startTime)), nextToken : Tokens \cup {Undefined}]
        \cup [nextToken : Tokens \cup {Undefined}]

HonestNext ==
    \/ \E req \in inflight : \E resp \in HonestResponses(req) :
           Fits(resp) /\ FetchReceive(resp)
    \/ RenderInitial
    \/ StartStream
    \/ MainReturn
    \/ \E req \in inflight : \E resp \in HonestResponses(req) : StreamReceive(resp)
    \/ StreamEmit
    \/ SleepDone
    \/ RequestFails
    \/ KeyPress(MainKeys, MainPattern)
    \/ \E sig \in {"SIGINT", "SIGTERM"} : Signal(sig)
    \/ Tick
    \/ \E e \in EventIds : Ingest(e)

HonestSpec == Init /\ [][HonestNext]_vars

(***************************************************************************)
(* FaithfulSpec: the source answers every request with the page the        *)
(* request asks for: the events it holds with timestamp >= startTime,      *)
(* sorted by timestamp, MaxBatch to a page, the token naming the next      *)
(* page.  No request fails, no interrupt arrives, every step of the        *)
(* program and every response eventually happens.                          *)
(***************************************************************************)
Before(x, y) ==
    \/ Timestamp(x) < Timestamp(y)
    \/ Timestamp(x) = Timestamp(y) /\ x <= y

RECURSIVE Listing(_)
Listing(S) ==
    IF S = {} THEN <<>>
    ELSE LET m == CHOOSE x \in S : \A y \in S : Before(x, y)
         IN  <<m>> \o Listing(S \ {m})

PageIndex(token) ==
    IF token = Undefined THEN 0
    ELSE CHOOSE k \in DOMAIN TokenNames : TokenNames[k] = token

FaithfulResponse(req) ==
    LET all == Listing(Matching(req.startTime))
        from == PageIndex(req.nextToken) * MaxBatch
        upto == IF from + MaxBatch < Len(all) THEN from + MaxBatch ELSE Len(all)
    IN  [events |-> SubSeq(all, from + 1, upto),
         nextToken |-> IF upto < Len(all) /\ PageIndex(req.nextToken) < Len(TokenNames)
                       THEN TokenNames[PageIndex(req.nextToken) + 1]
                       ELSE Undefined]

FaithfulFetch == \E req \in inflight : FetchReceive(FaithfulResponse(req))
FaithfulPoll == \E req \in inflight : StreamReceive(FaithfulResponse(req))

ProgramStep ==
    \/ FaithfulFetch
    \/ RenderInitial
    \/ StartStream
    \/ MainReturn
    \/ FaithfulPoll
    \/ StreamEmit
    \/ SleepDone

FaithfulNext ==
    \/ ProgramStep
    \/ KeyPress(MainKeys \ {CtrlC}, MainPattern)
    \/ Tick
    \/ \E e \in EventIds : Ingest(e)

FaithfulSpec == Init /\ [][FaithfulNext]_vars /\ WF_vars(ProgramStep)

(***************************************************************************)
(* FilterSpec: keystroke chunks only, the program waiting on its first     *)
(* request.                                                                *)
(***************************************************************************)
Keys ==
    { CtrlC, <<127>>, <<8>>, Delete, Escape,
      <<32>>, <<97>>, <<126>>,                  \* " ", "a", "~"
      <<97, 98>>, <<27, 91, 65>>,               \* "ab", arrow up
      <<9>>, <<31>>, <<233>> }                  \* tab, unit separator, e-acute

FilterNext == KeyLogged(Keys, MaxPattern)

FilterSpec == Init /\ [][FilterNext]_vars

(***************************************************************************)
(* FormatSpec: formatLogEntry (lines 337-343) takes a message and          *)
(* extracts its request id and its log level.  Messages are made of        *)
(* fragments: the level markers, pieces of them, request ids.              *)
(***************************************************************************)
Fragments ==
    {
      <<69, 82, 82, 79, 82>>,   \* "ERROR"
      <<87, 65, 82, 78>>,   \* "WARN"
      <<73, 78, 70, 79>>,   \* "INFO"
      <<68, 69, 66, 85, 71>>,   \* "DEBUG"
      <<83, 84, 65, 82, 84, 32, 82, 101, 113, 117, 101, 115, 116, 73,
         100, 58, 32>>,   \* "START RequestId: "
      <<69, 78, 68, 32, 82, 101, 113, 117, 101, 115, 116, 73, 100,
         58>>,   \* "END RequestId:"
      <<82, 69, 80, 79, 82, 84, 32, 82, 101, 113, 117, 101, 115, 116,
         73, 100, 58, 32>>,   \* "REPORT RequestId: "
      <<73, 78, 73, 84, 95, 83, 84, 65, 82, 84>>,   \* "INIT_START"
      <<101, 114, 114, 111, 114>>,   \* "error"
      <<69, 82, 82>>,   \* "ERR"
      <<79, 82>>,   \* "OR"
      <<32>>,   \* " "
      <<82, 101, 113, 117, 101, 115, 116, 73, 100, 58, 32>>,   \* "RequestId: "
      <<97, 98, 99>>,   \* "abc"
      <<120, 121, 122>>,   \* "xyz"
      \* "abcdef12-3456-7890-abcd-ef1234567890"
      <<97, 98, 99, 100, 101, 102, 49, 50, 45, 51, 52, 53, 54, 45,
         55, 56, 57, 48, 45, 97, 98, 99, 100, 45, 101, 102, 49, 50,
         51, 52, 53, 54, 55, 56, 57, 48>>,
      \* "RequestId: 01234567-89ab-cdef-0123-456789abcdef"
      <<82, 101, 113, 117, 101, 115, 116, 73, 100, 58, 32, 48, 49,
         50, 51, 52, 53, 54, 55, 45, 56, 57, 97, 98, 45, 99, 100, 101,
         102, 45, 48, 49, 50, 51, 45, 52, 53, 54, 55, 56, 57, 97, 98,
         99, 100, 101, 102>>,
      \* "ABCDEF12-3456-7890-ABCD-EF1234567890"
      <<65, 66, 67, 68, 69, 70, 49, 50, 45, 51, 52, 53, 54, 45, 55,
         56, 57, 48, 45, 65, 66, 67, 68, 45, 69, 70, 49, 50, 51, 52,
         53, 54, 55, 56, 57, 48>>
    }

RECURSIVE Concat(_)
Concat(parts) == IF parts = <<>> THEN <<>> ELSE Head(parts) \o Concat(Tail(parts))

Messages == {Concat(parts) : parts \in UNION {[1..n -> Fragments] : n \in 0..MaxFrags}}

\* message.includes(...) for each marker, in the order of the if statements
extractLogLevel_warnFirst(msg) ==
    IF Includes(msg, <<87, 65, 82, 78>>) THEN "WRN"
    ELSE IF Includes(msg, <<69, 82, 82, 79, 82>>) THEN "ERR"
    ELSE IF Includes(msg, <<73, 78, 70, 79>>) THEN "INF"
    ELSE IF Includes(msg, <<68, 69, 66, 85, 71>>) THEN "DBG"
    ELSE IF Includes(msg, <<83, 84, 65, 82, 84, 32, 82, 101, 113, 117, 101, 115, 116, 73, 100, 58>>)
         THEN "STR"
    ELSE IF Includes(msg, <<69, 78, 68, 32, 82, 101, 113, 117, 101, 115, 116, 73, 100, 58>>)
         THEN "END"
    ELSE IF Includes(msg, <<82, 69, 80, 79, 82, 84, 32, 82, 101, 113, 117, 101, 115, 116, 73, 100, 58>>)
         THEN "RPT"
    ELSE IF Includes(msg, <<73, 78, 73, 84, 95, 83, 84, 65, 82, 84>>) THEN "INI"
    ELSE "   "

extractLogLevel(msg) ==
    IF Includes(msg, <<69, 82, 82, 79, 82>>) THEN "ERR"             \* "ERROR"
    ELSE IF Includes(msg, <<87, 65, 82, 78>>) THEN "WRN"            \* "WARN"
    ELSE IF Includes(msg, <<73, 78, 70, 79>>) THEN "INF"            \* "INFO"
    ELSE IF Includes(msg, <<68, 69, 66, 85, 71>>) THEN "DBG"        \* "DEBUG"
    ELSE IF Includes(msg, <<83, 84, 65, 82, 84, 32, 82, 101, 113, 117, 101, 115, 116, 73, 100, 58>>)
         THEN "STR"                                                 \* "START RequestId:"
    ELSE IF Includes(msg, <<69, 78, 68, 32, 82, 101, 113, 117, 101, 115, 116, 73, 100, 58>>)
         THEN "END"                                                 \* "END RequestId:"
    ELSE IF Includes(msg, <<82, 69, 80, 79, 82, 84, 32, 82, 101, 113, 117, 101, 115, 116, 73, 100, 58>>)
         THEN "RPT"                                                 \* "REPORT RequestId:"
    ELSE IF Includes(msg, <<73, 78, 73, 84, 95, 83, 84, 65, 82, 84>>) THEN "INI"   \* "INIT_START"
    ELSE "   "

\* [a-f0-9]
IsHex(c) == (c >= 97 /\ c <= 102) \/ (c >= 48 /\ c <= 57)

\* [a-f0-9-]
IsIdChar(c) == IsHex(c) \/ c = 45

\* the literal at position i
LiteralAt(s, i, lit) == i + Len(lit) - 1 <= Len(s) /\ SubSeq(s, i, i + Len(lit) - 1) = lit

\* [a-f0-9-]+ from position i, greedy: the position after the run
RECURSIVE IdRunEnd(_, _)
IdRunEnd(s, i) == IF i <= Len(s) /\ IsIdChar(s[i]) THEN IdRunEnd(s, i + 1) ELSE i

\* [a-f0-9]{n} at position i
HexRun(s, i, n) == i + n - 1 <= Len(s) /\ \A k \in i..(i + n - 1) : IsHex(s[k])

\* message.match(/RequestId: ([a-f0-9-]+)/), tried from position i on:
\* <<group 1>>, or <<>> for null
RECURSIVE MatchRequestId(_, _)
MatchRequestId(s, i) ==
    IF i > Len(s) THEN <<>>
    ELSE LET from == i + 11
         IN  IF LiteralAt(s, i, <<82, 101, 113, 117, 101, 115, 116, 73, 100, 58, 32>>)
                /\ IdRunEnd(s, from) > from
             THEN << SubSeq(s, from, IdRunEnd(s, from) - 1) >>
             ELSE MatchRequestId(s, i + 1)

\* message.match(/([a-f0-9]{8}-[a-f0-9]{4}-[a-f0-9]{4}-[a-f0-9]{4}-[a-f0-9]{12})/)
RECURSIVE MatchUuid(_, _)
MatchUuid(s, i) ==
    IF i > Len(s) THEN <<>>
    ELSE IF /\ HexRun(s, i, 8) /\ LiteralAt(s, i + 8, <<45>>)
            /\ HexRun(s, i + 9, 4) /\ LiteralAt(s, i + 13, <<45>>)
            /\ HexRun(s, i + 14, 4) /\ LiteralAt(s, i + 18, <<45>>)
            /\ HexRun(s, i + 19, 4) /\ LiteralAt(s, i + 23, <<45>>)
            /\ HexRun(s, i + 24, 12)
         THEN << SubSeq(s, i, i + 35) >>
         ELSE MatchUuid(s, i + 1)

\* String.prototype.slice(0, n)
Slice0(s, n) == SubSeq(s, 1, IF Len(s) < n THEN Len(s) ELSE n)

extractRequestId_uuidFirst(msg) ==
    IF MatchUuid(msg, 1) # <<>> THEN Slice0(MatchUuid(msg, 1)[1], 6)
    ELSE IF MatchRequestId(msg, 1) # <<>> THEN Slice0(MatchRequestId(msg, 1)[1], 6)
    ELSE <<45, 45, 45, 45, 45, 45>>

extractRequestId(msg) ==
    IF MatchRequestId(msg, 1) # <<>> THEN Slice0(MatchRequestId(msg, 1)[1], 6)
    ELSE IF MatchUuid(msg, 1) # <<>> THEN Slice0(MatchUuid(msg, 1)[1], 6)
    ELSE <<45, 45, 45, 45, 45, 45>>        \* "------"

FormatInit ==
    /\ logMessage \in Messages
    /\ logLevel = <<>>
    /\ requestId = <<>>
    /\ pc = "format"
    /\ since = <<>>
    /\ tail = FALSE
    /\ isTTY = FALSE
    /\ now = 0
    /\ startTime = 0
    /\ visible = {}
    /\ inflight = {}
    /\ events = <<>>
    /\ currentStartTime = 0
    /\ batch = <<>>
    /\ emitted = 0
    /\ filterState = [pattern |-> <<>>, isActive |-> FALSE]
    /\ rawMode = FALSE
    /\ readlineOpen = FALSE
    /\ exitCode = <<>>
    /\ out = <<>>
    /\ screen = [above |-> <<>>, bottom |-> <<>>]
    /\ rendered = {}
    /\ dupAcross = FALSE
    /\ arrived = <<>>
    /\ lastToken = "none"
    /\ failedAt = "none"
    /\ lastPoll = "none"
    /\ interrupt = <<>>
    /\ received = <<>>
    /\ lastKey = <<>>

\* lines 341-342
formatLogEntry ==
    /\ pc = "format"
    /\ requestId' = extractRequestId(logMessage)
    /\ logLevel' = <<extractLogLevel(logMessage)>>
    /\ pc' = "formatted"
    /\ UNCHANGED << logMessage, envVars, inflight, events, currentStartTime,
                    batch, emitted, filterVars, exitCode, out, screen, histVars,
                    received, lastKey >>

FormatNext == formatLogEntry

FormatSpec == FormatInit /\ [][FormatNext]_vars

(***************************************************************************)
(* ParseSpec: the start of main (lines 455-463, 476-494): the --since      *)
(* string is parsed, then either the first request of the bounded fetch    *)
(* is sent or the error is reported.  Times are milliseconds here.         *)
(***************************************************************************)
\* "0", "2", "s", "m", "h", "d", "H", "x", " "
SinceChars == {48, 50, 115, 109, 104, 100, 72, 120, 32}

\* \d
IsDigit(c) == c >= 48 /\ c <= 57

\* \d+ at the start of the string: how many characters it takes
RECURSIVE LeadingDigits(_)
LeadingDigits(s) ==
    IF s = <<>> \/ ~IsDigit(Head(s)) THEN 0 ELSE 1 + LeadingDigits(Tail(s))

\* timeStr.match(/^(\d+)([smhd])$/): <<amount, unit>>, or <<>> for null
Match(s) ==
    LET k == LeadingDigits(s)
    IN  IF k >= 1 /\ Len(s) = k + 1 /\ s[k + 1] \in {115, 109, 104, 100}
        THEN << SubSeq(s, 1, k), s[k + 1] >>
        ELSE <<>>

\* Number.parseInt(amount, 10) of a string of digits
RECURSIVE ParseInt(_)
ParseInt(ds) ==
    IF ds = <<>> THEN 0
    ELSE ParseInt(SubSeq(ds, 1, Len(ds) - 1)) * 10 + (ds[Len(ds)] - 48)

multipliers_hourAsMinute(unit) ==
    CASE unit = 115 -> 1000
      [] unit = 109 -> 60 * 1000
      [] unit = 104 -> 60 * 1000
      [] unit = 100 -> 24 * 60 * 60 * 1000

multipliers(unit) ==
    CASE unit = 115 -> 1000
      [] unit = 109 -> 60 * 1000
      [] unit = 104 -> 60 * 60 * 1000
      [] unit = 100 -> 24 * 60 * 60 * 1000

\* the milliseconds returned, or the Error thrown
parseTimeFormat(timeStr) ==
    LET match == Match(timeStr)
    IN  IF match = <<>>
        THEN [threw |-> TRUE]
        ELSE [threw |-> FALSE, value |-> ParseInt(match[1]) * multipliers(match[2])]

Strings(chars, n) == UNION {[1..k -> chars] : k \in 0..n}

SinceStrings ==
    {s \in Strings(SinceChars, MaxSinceLen) :
        ParseInt(SubSeq(s, 1, LeadingDigits(s))) <= MaxAmount}

ParseClock == {7200000, 1700000000}

ParseInit ==
    /\ since \in SinceStrings
    /\ tail \in BOOLEAN
    /\ isTTY \in BOOLEAN
    /\ now \in ParseClock
    /\ startTime = 0           \* let startTime: number, not yet assigned
    /\ visible = {}
    /\ pc = "start"
    /\ inflight = {}
    /\ events = <<>>
    /\ currentStartTime = 0
    /\ batch = <<>>
    /\ emitted = 0
    /\ filterState = [pattern |-> <<>>, isActive |-> FALSE]
    /\ rawMode = FALSE
    /\ readlineOpen = FALSE
    /\ exitCode = <<>>
    /\ out = <<>>
    /\ screen = [above |-> <<>>, bottom |-> <<>>]
    /\ rendered = {}
    /\ dupAcross = FALSE
    /\ arrived = <<>>
    /\ lastToken = "none"
    /\ failedAt = "none"
    /\ lastPoll = "none"
    /\ interrupt = <<>>
    /\ received = <<>>
    /\ lastKey = <<>>
    /\ logMessage = <<>>
    /\ logLevel = <<>>
    /\ requestId = <<>>

\* lines 455-463, then 465-494 up to the first request
MainStart ==
    /\ pc = "start"
    /\ LET sinceMs == parseTimeFormat(since)
       IN  IF sinceMs.threw
           THEN /\ out' = <<"error">>
                /\ Exit(1)
                /\ UNCHANGED << startTime, currentStartTime, rawMode, readlineOpen >>
           ELSE /\ startTime' = now - sinceMs.value
                /\ currentStartTime' = startTime'
                /\ rawMode' = (tail /\ isTTY)
                /\ readlineOpen' = tail
                /\ inflight' = {Request(startTime', Undefined)}
                /\ pc' = "fetch"
                /\ out' = <<>>
                /\ UNCHANGED exitCode
    /\ screen' = Draw(screen, out', filterState)
    /\ UNCHANGED << since, tail, isTTY, now, visible, events, batch, emitted,
                    filterState, histVars, received, lastKey, fmtVars >>

ParseNext == MainStart

ParseSpec == ParseInit /\ [][ParseNext]_vars

(***************************************************************************)
(* Properties.                                                             *)
(***************************************************************************)
SetMax(S) == CHOOSE m \in S : \A x \in S : x <= m

BatchTimestamps == {Timestamp(batch[i]) : i \in 1..Len(batch)}

Streaming == pc \in {"stream", "emit", "sleep"}

\* the response of a poll was received by this step
PollAnswered == pc = "stream" /\ inflight # {} /\ inflight' = {} /\ pc' # "exit"

\* C1: in streamLogs the cursor after a step is never smaller than before it,
\* whatever batch the source returns.
C1_CursorNonDecreasing ==
    [][Streaming => currentStartTime' >= currentStartTime]_vars

\* C2: with a source that returns only events with timestamp >= the requested
\* start, every event printed so far has a timestamp strictly below the start
\* of the poll now in flight, and no event of an earlier batch (the initial
\* fetch or an earlier poll) is printed again.
C2_NoRedelivery ==
    /\ ~dupAcross
    /\ pc = "stream" =>
           \A req \in inflight : \A e \in rendered : Timestamp(e) < req.startTime

C2_Witness ==
    /\ pc = "sleep"
    /\ batch # <<>>
    /\ emitted = Len(batch)
    /\ rendered \ Range(batch) # {}

\* C3: in tail mode, with a source that answers every poll with the page asked
\* for, no failure and no interrupt, every event the source holds with
\* timestamp >= the lookback start is eventually printed.
C3_NoEventDropped ==
    \A e \in EventIds :
        [] ( ( /\ tail
               /\ e \in visible
               /\ "timestamp" \in DOMAIN Universe[e]
               /\ Universe[e].timestamp >= startTime )
             => <>(e \in rendered) )

\* C4: while the consumer holds an event of a batch (between any two yields of
\* it), the cursor already is the largest timestamp of the batch plus one.
C4_CursorSetBeforeEmit ==
    pc = "emit" => currentStartTime = SetMax(BatchTimestamps) + 1

C4_Witness ==
    /\ pc = "emit"
    /\ emitted = 1
    /\ Len(batch) > 1
    /\ Timestamp(batch[2]) > Timestamp(batch[1])

\* C5: the step that receives a non-empty batch leaves the cursor at the
\* largest timestamp of the batch plus one, which is what every reordering of
\* the batch gives.
C5_CursorIsMaxPlusOne ==
    [][ (PollAnswered /\ lastPoll' = "events") =>
            /\ currentStartTime' = SetMax({Timestamp(batch'[i]) : i \in 1..Len(batch')}) + 1
            /\ \A f \in Permutations(1..Len(batch')) :
                   NewCursor([i \in 1..Len(batch') |-> batch'[f[i]]]) = currentStartTime'
      ]_vars

C5_Witness ==
    /\ pc = "emit"
    /\ emitted = 0
    /\ Len(batch) > 1
    /\ Timestamp(batch[1]) > Timestamp(batch[Len(batch)])
    /\ currentStartTime = 3

C7_FetchDrainsAllPages ==
    /\ pc = "fetch" =>
           /\ lastToken # Undefined
           /\ inflight = {Request(startTime, IF lastToken = "none" THEN Undefined
                                             ELSE lastToken)}
           /\ lastToken = "none" => arrived = <<>>
    /\ pc = "fetched" => lastToken = Undefined /\ inflight = {}
    /\ pc \in {"fetch", "fetched", "rendered"} => events = arrived

C7_Witness ==
    /\ pc = "fetched"
    /\ Len(events) > MaxBatch

\* C8: once a request has failed the process has exited with code 1, no
\* request is outstanding, nothing more is printed, and the pages a failing
\* bounded fetch had already drained were never printed.
C8_FailureIsFatal ==
    /\ [] ( failedAt # "none" =>
              /\ pc = "exit"
              /\ exitCode = <<1>>
              /\ inflight = {}
              /\ failedAt = "fetch" => rendered = {} )
    /\ [][failedAt # "none" => UNCHANGED << rendered, inflight, pc, exitCode >>]_vars

C8_Witness ==
    /\ failedAt = "fetch"
    /\ Len(arrived) > 0

\* C9: once an interrupt (the Ctrl+C chunk, SIGINT, SIGTERM) has been delivered
\* in tail mode, raw mode is off, the readline interface is closed and the
\* process has exited with code 0.
C9_InterruptCleansUp ==
    interrupt # <<>> =>
        /\ tail
        /\ ~rawMode
        /\ ~readlineOpen
        /\ pc = "exit"
        /\ exitCode = <<0>>

C9_Witness ==
    /\ interrupt = <<"key", "sleep">>
    /\ isTTY

\* C10: the filter is active exactly when its pattern is not empty.
C10_ActiveIffNonEmpty ==
    filterState.isActive <=> (filterState.pattern # <<>>)

C10_Witness ==
    /\ filterState.pattern = <<>>
    /\ out = <<"erase">>
    /\ inflight # {}

(***************************************************************************)
(* The keystroke table of the filter, stated on its own.                   *)
(***************************************************************************)
PrintableUnits == 32..126          \* space .. "~"
RemovalChunks == {<<127>>, <<8>>, <<27, 91, 51, 126>>}   \* backspace, delete

TableStep(pattern, chunk) ==
    IF Len(chunk) = 1 /\ chunk[1] \in PrintableUnits THEN Append(pattern, chunk[1])
    ELSE IF chunk \in RemovalChunks
         THEN [i \in 1..(Len(pattern) - 1) |-> pattern[i]]
    ELSE IF chunk = <<27>> THEN <<>>
    ELSE pattern

TableIgnores(chunk) ==
    /\ ~(Len(chunk) = 1 /\ chunk[1] \in PrintableUnits)
    /\ chunk \notin RemovalChunks
    /\ chunk # <<27>>
    /\ chunk # <<3>>

\* C11: starting from the empty pattern, every keystroke chunk other than
\* Ctrl+C moves the pattern as the keystroke table says (a printable
\* character is appended, backspace and delete remove the last character,
\* escape empties it), and every chunk outside the table leaves both the
\* pattern and the activity flag unchanged.
C11_PatternIsFoldOfKeys ==
    [][ /\ lastKey' # <<3>> =>
             filterState'.pattern = TableStep(filterState.pattern, lastKey')
        /\ TableIgnores(lastKey') => filterState' = filterState ]_vars

C11_Witness ==
    /\ lastKey = <<97, 98>>
    /\ filterState.pattern = <<126, 97>>
    /\ filterState.isActive

\* C12: backspace or delete on the empty pattern changes nothing: the filter
\* state stays as it was, nothing is written, the program goes on.
C12_RemovalOnEmptyIsNoOp ==
    [][ (lastKey' \in RemovalChunks /\ filterState.pattern = <<>>) =>
            /\ filterState' = filterState
            /\ out' = <<>>
            /\ exitCode' = <<>>
            /\ UNCHANGED << pc, inflight, rawMode, readlineOpen >> ]_vars

C12_Witness ==
    /\ lastKey = <<27, 91, 51, 126>>
    /\ filterState = [pattern |-> <<>>, isActive |-> FALSE]
    /\ out = <<>>
    /\ exitCode = <<>>

(***************************************************************************)
(* Dimming, stated on its own.                                             *)
(***************************************************************************)
CaseFold(c) == IF c \in 65..90 THEN c + 32 ELSE c

ContainsIgnoringCase(message, pattern) ==
    \E k \in 0..(Len(message) - Len(pattern)) :
        \A i \in 1..Len(pattern) : CaseFold(message[k + i]) = CaseFold(pattern[i])

DimExpected(fs, message) ==
    /\ fs.isActive
    /\ fs.pattern # <<>>
    /\ ~ContainsIgnoringCase(message, fs.pattern)

\* pairs of a pattern and a message
DimCases ==
    { << <<116, 105, 109, 101, 111, 117, 116>>,
         <<67, 111, 110, 110, 101, 99, 116, 105, 111, 110, 32, 116, 105, 109, 101,
           111, 117, 116, 32, 97, 102, 116, 101, 114, 32, 51, 48, 115>> >>,   \* "timeout" in "Connection timeout after 30s"
      << <<116, 105, 109, 101, 111, 117, 116>>,
         <<79, 75>> >>,   \* "timeout" in "OK"
      << <<84, 73, 77, 69>>,
         <<116, 105, 109, 101, 111, 117, 116>> >>,   \* "TIME" in "timeout"
      << <<101, 114, 114>>,
         <<69, 82, 82, 79, 82, 32, 120>> >>,   \* "err" in "ERROR x"
      << <<97>>,
         <<>> >>,   \* "a" in ""
      << <<>>,
         <<120>> >>,   \* "" in "x"
      << <<97, 98>>,
         <<97>> >>,   \* "ab" in "a"
      << <<51, 48, 83>>,
         <<97, 102, 116, 101, 114, 32, 51, 48, 115>> >>   \* "30S" in "after 30s"
    }

PrintedLines(written) ==
    Cardinality({i \in DOMAIN written : written[i] \in {"line", "dimmed"}})

EmitStep == pc = "emit" /\ emitted' = emitted + 1

\* C13: a line is dimmed exactly when the filter is active, the pattern is
\* non-empty and the message does not contain the pattern, compared
\* case-insensitively; the streaming renderer prints exactly one line, dimmed
\* or not, for every event emitted, whatever the filter state.
C13_DimNeverDrops ==
    \* the table is a formula of constants: true or false of every state alike
    /\ \A active \in BOOLEAN : \A c \in DimCases :
           LET fs == [pattern |-> c[1], isActive |-> active]
           IN  shouldDimLine(fs, c[2]) = DimExpected(fs, c[2])
    /\ [][EmitStep =>
            LET e == batch[emitted']
            IN  /\ PrintedLines(out') = 1
                /\ ("dimmed" \in Range(out')) = DimExpected(filterState, Message(e))
                /\ rendered' = rendered \cup {e}]_vars

C13_Witness ==
    /\ pc = "emit"
    /\ emitted = 1
    /\ Message(batch[1]) = <<65>>
    /\ filterState = [pattern |-> <<97>>, isActive |-> TRUE]
    /\ out = <<"erase", "line", "status">>

(***************************************************************************)
(* The render pass, stated on its own.                                     *)
(***************************************************************************)
RECURSIVE ExpectedPasses(_, _)
ExpectedPasses(evs, fs) ==
    IF evs = <<>> THEN <<>>
    ELSE <<"erase">>
         \o <<IF DimExpected(fs, Message(Head(evs))) THEN "dimmed" ELSE "line">>
         \o (IF fs.isActive THEN <<"status">> ELSE <<>>)
         \o ExpectedPasses(Tail(evs), fs)

\* the events whose lines the last step printed
LastPrinted ==
    IF pc = "rendered" THEN events
    ELSE IF pc \in {"emit", "sleep"} /\ emitted > 0 THEN <<batch[emitted]>>
    ELSE <<>>

LogLineWritten == PrintedLines(out) > 0

\* C14: while the interactive filter exists (tail mode), every log line
\* printed, a line of the initial bounded fetch as well as a line of a poll,
\* is printed by a render pass: erase the status line, decide dimmed or
\* normal against the current pattern, print the line, redraw the status
\* line if the filter is active.
C14_EveryLineByRenderPass ==
    (tail /\ pc # "exit" /\ LogLineWritten) =>
        out = ExpectedPasses(LastPrinted, filterState)

\* C15: the overlay works only when tail mode is on and the terminal is
\* interactive: with tail off or without an interactive terminal no keystroke
\* reaches the filter and no status-line erase or redraw is written.
C15_OverlayOnlyOnTerminal ==
    (~tail \/ ~isTTY) =>
        /\ filterState = [pattern |-> <<>>, isActive |-> FALSE]
        /\ "erase" \notin Range(out)
        /\ "status" \notin Range(out)

(***************************************************************************)
(* The poll loop (while (true), lines 421-440).                            *)
(***************************************************************************)
LoopOrder ==
    \/ pc = "stream" /\ pc' \in {"stream", "emit", "sleep"}
    \/ pc = "emit" /\ pc' \in {"emit", "sleep"}
    \/ pc = "sleep" /\ pc' \in {"sleep", "stream"}

LoopNotStuck ==
    /\ pc = "stream" => inflight # {}
    /\ pc = "emit" => emitted < Len(batch)

\* C16, as stated: once in the poll loop the process leaves it only through
\* an interrupt.
C16_OnlyInterruptLeavesLoop ==
    [][(Streaming /\ pc' \notin {"stream", "emit", "sleep"}) =>
           interrupt' # <<>>]_vars

\* C16, amended: the poll loop has no terminal state of its own: it goes
\* round fetch, emit, sleep, always with a next step pending, and the
\* process leaves it only by exiting, either on an interrupt (exit code 0)
\* or on a failed poll request (exit code 1).
C16_LoopLeftByInterruptOrFailure ==
    /\ [](Streaming => LoopNotStuck)
    /\ [][Streaming =>
            \/ LoopOrder
            \/ /\ pc' = "exit"
               /\ \/ interrupt' # <<>> /\ exitCode' = <<0>> /\ failedAt' = "none"
                  \/ /\ pc = "stream"
                     /\ failedAt' = "stream"
                     /\ exitCode' = <<1>>
                     /\ interrupt' = <<>>]_vars

C16_Witness ==
    /\ pc = "exit"
    /\ failedAt = "stream"
    /\ lastPoll = "events"
    /\ exitCode = <<1>>

\* C17: a poll is one request and its first page: whatever nextToken the
\* response of a poll carries, its events are the whole batch and no request
\* follows it before the sleep; every request of the poll loop asks for the
\* cursor with no token.  The bounded fetch, in contrast, answers every
\* response that carries a token with a request for that token.
C17_PollIsOneRequest ==
    /\ Streaming =>
         /\ Cardinality(inflight) <= 1
         /\ \A req \in inflight : req = Request(currentStartTime, Undefined)
    /\ (received # <<>> /\ pc \in {"emit", "sleep"}) =>
         /\ inflight = {}
         /\ batch = IF HasEvents(received[1]) THEN received[1].events ELSE <<>>
    /\ (received # <<>> /\ pc \in {"fetch", "fetched"}) =>
         IF received[1].nextToken \in Tokens
         THEN pc = "fetch" /\ inflight = {Request(startTime, received[1].nextToken)}
         ELSE pc = "fetched" /\ inflight = {}

C17_Witness ==
    /\ pc = "emit"
    /\ received # <<>>
    /\ received[1].nextToken \in Tokens
    /\ Len(batch) = MaxBatch
    /\ inflight = {}

\* this step sends a request of the poll loop
PollSent == pc' = "stream" /\ inflight' # {} /\ inflight' # inflight

\* C18: between two consecutive requests of the poll loop exactly one sleep
\* completes, whether the batch between them was empty or not: only the step
\* that ends a sleep sends a request (the first one apart, sent when the loop
\* is entered), that step sends exactly one, and from the response of a poll
\* to the next request the loop passes through the sleep with no request in
\* flight.
C18_OneSleepBetweenPolls ==
    /\ [](pc \in {"emit", "sleep"} => inflight = {})
    /\ [][PollSent => (pc \in {"sleep", "rendered"} /\ Cardinality(inflight') = 1)]_vars
    /\ [][(pc = "sleep" /\ pc' \notin {"sleep", "exit"}) => PollSent]_vars
    /\ [][(pc \in {"stream", "emit"} /\ pc' \notin {pc, "exit"}) =>
             (pc' \in {"emit", "sleep"} /\ ~PollSent)]_vars

C18_Witness ==
    /\ pc = "stream"
    /\ inflight # {}
    /\ lastPoll = "empty"

(***************************************************************************)
(* One-shot mode (tail off).                                               *)
(***************************************************************************)
InitialOutput(evs) ==
    IF evs = <<>> THEN <<"nologs">> ELSE [i \in 1..Len(evs) |-> "line"]

\* C19: with tail off, a source that ends its pages and no failing request,
\* the program performs the bounded fetch once, prints its events (or the
\* 'No logs found' notice), never polls, never sets raw mode or installs the
\* filter, and exits with code 0.
C19_OneShotWithoutTail ==
    /\ [](~tail =>
            /\ ~rawMode
            /\ ~readlineOpen
            /\ filterState = [pattern |-> <<>>, isActive |-> FALSE]
            /\ ~Streaming
            /\ currentStartTime = startTime
            /\ pc \in {"fetched", "rendered", "exit"} => inflight = {}
            /\ pc = "rendered" =>
                 /\ events = arrived
                 /\ out = InitialOutput(events)
                 /\ rendered = Range(events)
            /\ pc = "exit" => exitCode = <<0>> /\ failedAt = "none")
    /\ [][(~tail /\ pc # "fetch") => pc' # "fetch"]_vars
    /\ (~tail => <>(pc = "exit" /\ exitCode = <<0>>))

C19_Witness ==
    /\ ~tail
    /\ pc = "exit"
    /\ exitCode = <<0>>
    /\ Cardinality(rendered) = MaxFetched
    /\ lastToken = Undefined

(***************************************************************************)
(* The lookback format, stated on its own.                                 *)
(***************************************************************************)
DecimalDigits == 48..57
UnitLetters == {115, 109, 104, 100}     \* s, m, h, d

Accepted(s) ==
    /\ Len(s) >= 2
    /\ \A i \in 1..(Len(s) - 1) : s[i] \in DecimalDigits
    /\ s[Len(s)] \in UnitLetters

RECURSIVE Power10(_)
Power10(n) == IF n = 0 THEN 1 ELSE 10 * Power10(n - 1)

RECURSIVE DigitSum(_, _)
\* the number spelled by the first n characters of s
DigitSum(s, n) ==
    IF n = 0 THEN 0
    ELSE (s[1] - 48) * Power10(n - 1) + DigitSum(Tail(s), n - 1)

UnitMs(c) ==
    IF c = 115 THEN 1000
    ELSE IF c = 109 THEN 60000
    ELSE IF c = 104 THEN 3600000
    ELSE 86400000

\* C20: the --since string is accepted exactly when it is one or more decimal
\* digits followed by one of s, m, h, d; then the bounded fetch starts at
\* now minus the number times 1000, 60000, 3600000 or 86400000 ("2h" at T
\* gives T - 7200000); any other string gives an error, no request and exit
\* code 1.
C20_LookbackFormat ==
    pc # "start" =>
        IF Accepted(since)
        THEN /\ pc = "fetch"
             /\ exitCode = <<>>
             /\ startTime = now - DigitSum(since, Len(since) - 1) * UnitMs(since[Len(since)])
             /\ inflight = {[startTime |-> startTime, nextToken |-> Undefined]}
             /\ since = <<50, 104>> => startTime = now - 7200000
        ELSE /\ pc = "exit"
             /\ exitCode = <<1>>
             /\ inflight = {}
             /\ out = <<"error">>
             /\ ~rawMode

C20_Witness ==
    /\ since = <<50, 104>>
    /\ pc = "fetch"
    /\ now = 1700000000
    /\ startTime = 1692800000
    /\ inflight # {}

(***************************************************************************)
(* The level tags, stated on their own: the markers in priority order.     *)
(***************************************************************************)
LevelMarkers ==
    <<
       [tag |-> "ERR",   \* "ERROR"
        marker |-> <<69, 82, 82, 79, 82>>],
       [tag |-> "WRN",   \* "WARN"
        marker |-> <<87, 65, 82, 78>>],
       [tag |-> "INF",   \* "INFO"
        marker |-> <<73, 78, 70, 79>>],
       [tag |-> "DBG",   \* "DEBUG"
        marker |-> <<68, 69, 66, 85, 71>>],
       [tag |-> "STR",   \* "START RequestId:"
        marker |-> <<83, 84, 65, 82, 84, 32, 82, 101, 113, 117, 101, 115, 116, 73, 100, 58>>],
       [tag |-> "END",   \* "END RequestId:"
        marker |-> <<69, 78, 68, 32, 82, 101, 113, 117, 101, 115, 116, 73, 100, 58>>],
       [tag |-> "RPT",   \* "REPORT RequestId:"
        marker |-> <<82, 69, 80, 79, 82, 84, 32, 82, 101, 113, 117, 101, 115, 116, 73, 100, 58>>],
       [tag |-> "INI",   \* "INIT_START"
        marker |-> <<73, 78, 73, 84, 95, 83, 84, 65, 82, 84>>]
    >>

Occurs(text, msg) ==
    \E k \in 1..Len(msg) :
        /\ k + Len(text) - 1 <= Len(msg)
        /\ \A j \in 1..Len(text) : msg[k + j - 1] = text[j]

MarkersIn(msg) == {i \in DOMAIN LevelMarkers : Occurs(LevelMarkers[i].marker, msg)}

\* C21: a message gets exactly one level tag: the tag of the marker of
\* highest priority among the markers it contains (ERROR, WARN, INFO, DEBUG,
\* "START RequestId:", "END RequestId:", "REPORT RequestId:", INIT_START, in
\* this order), the blank tag if it contains none.
C21_LevelByPriority ==
    pc = "formatted" =>
        LET present == MarkersIn(logMessage)
        IN  /\ Len(logLevel) = 1
            /\ present = {} => logLevel[1] = "   "
            /\ present # {} =>
                 \E i \in present :
                     /\ \A j \in present : i <= j
                     /\ logLevel[1] = LevelMarkers[i].tag

C21_Witness ==
    /\ pc = "formatted"
    /\ logMessage = <<87, 65, 82, 78, 69, 82, 82, 79, 82>>      \* "WARNERROR"
    /\ logLevel = <<"ERR">>

(***************************************************************************)
(* The request id, stated on its own.                                      *)
(***************************************************************************)
HexAlphabet == (48..57) \cup (97..102)          \* 0-9, a-f
IdAlphabet == HexAlphabet \cup {45}             \* and "-"
IdMarker == <<82, 101, 113, 117, 101, 115, 116, 73, 100, 58, 32>>   \* "RequestId: "
Placeholder == <<45, 45, 45, 45, 45, 45>>       \* "------"

\* positions of an id that follows the marker
MarkedIds(msg) ==
    {k \in 1..Len(msg) :
        /\ k - Len(IdMarker) >= 1
        /\ \A j \in 1..Len(IdMarker) : msg[k - Len(IdMarker) + j - 1] = IdMarker[j]
        /\ msg[k] \in IdAlphabet}

\* the id at position k: the characters up to the first one outside the alphabet
IdAt(msg, k) ==
    LET n == CHOOSE n \in 1..(Len(msg) - k + 1) :
                 /\ \A j \in k..(k + n - 1) : msg[j] \in IdAlphabet
                 /\ (k + n > Len(msg) \/ msg[k + n] \notin IdAlphabet)
    IN  [j \in 1..n |-> msg[k + j - 1]]

\* positions of a UUID-shaped substring: 8-4-4-4-12 characters of 0-9, a-f
BareUuids(msg) ==
    {k \in 1..(Len(msg) - 35) :
        \A d \in 0..35 :
            IF d \in {8, 13, 18, 23} THEN msg[k + d] = 45
            ELSE msg[k + d] \in HexAlphabet}

First6(x) == [j \in 1..(IF Len(x) < 6 THEN Len(x) ELSE 6) |-> x[j]]

Least(S) == CHOOSE k \in S : \A j \in S : k <= j

ShownStatus(fs) ==
    IF fs.isActive THEN <<[kind |-> "status", text |-> fs.pattern]>> ELSE <<>>

\* C23: no keystroke is handled inside the render pass of an event: the
\* filter state changes only while main waits for a request or sleeps, never
\* between the yield of an event and the end of its pass, and the dim
\* decision of a pass and the status line the pass redraws are taken from
\* one and the same pattern and flag.
C23_NoKeystrokeInsidePass ==
    /\ [][filterState' # filterState =>
            /\ pc \in {"fetch", "stream", "sleep"}
            /\ UNCHANGED << pc, inflight, batch, emitted, rendered >>]_vars
    /\ [][EmitStep =>
            LET e == batch[emitted']
            IN  /\ filterState' = filterState
                /\ ("dimmed" \in Range(out')) = DimExpected(filterState', Message(e))
                /\ screen'.bottom = ShownStatus(filterState)]_vars

C23_Witness ==
    /\ pc \in {"emit", "sleep"}
    /\ emitted = 1
    /\ filterState.isActive
    /\ out = <<"erase", "dimmed", "status">>
    /\ screen.bottom = <<[kind |-> "status", text |-> <<97>>]>>

\* C24: a tail-mode process that has terminated, by the interrupt keystroke,
\* by SIGINT or SIGTERM, or by a failed request of the initial fetch or of a
\* poll, has raw mode switched off.
C24_RawModeOffAtExit ==
    (tail /\ pc = "exit") => ~rawMode

\* the most recently completed line holds a printed log line next to status text
LogLineOnStatus ==
    /\ \E i \in DOMAIN screen.above : screen.above[i].kind = "log"
    /\ \E i \in DOMAIN screen.above : screen.above[i].kind = "status"

\* the last thing written was the 'No logs found' notice
NoticeLast ==
    /\ screen.bottom = <<>>
    /\ screen.above # <<>>
    /\ screen.above[Len(screen.above)].kind = "nologs"

\* C25: in tail mode on a terminal, after every keystroke handler and every rendered log
\* line, the line the cursor is on holds exactly the status text
\* "filter: <pattern>" if the filter is active and nothing if it is not, and
\* no printed log line shares a line with status text.
C25_StatusLineIntact ==
    (tail /\ isTTY /\ pc # "exit") =>
        /\ ~NoticeLast => screen.bottom = ShownStatus(filterState)
        /\ ~LogLineOnStatus

\* C26: neither event source blocks the other.  While a request is
\* outstanding, answered or not, or the loop sleeps, every keystroke can be
\* handled at once, and handling it changes the filter without touching the
\* request or the position of main; and when no interrupt arrives, no
\* request fails and every request is answered, polls are sent again and
\* again, whatever keystrokes arrive in between.
C26_NeitherSourceBlocks ==
    /\ []((tail /\ pc \in {"fetch", "stream", "sleep"}) =>
            \A key \in MainKeys \ {CtrlC} :
                (IsPrintable(key) => Len(filterState.pattern) < MainPattern)
                    => ENABLED handleKeyPress(key))
    /\ [][filterState' # filterState => UNCHANGED << pc, inflight >>]_vars
    /\ (tail => ([]<>(pc = "stream" /\ inflight # {}) /\ []<>(pc = "sleep")))

C26_Witness ==
    /\ pc = "stream"
    /\ inflight # {}
    /\ lastPoll = "events"
    /\ filterState = [pattern |-> <<97>>, isActive |-> TRUE]
    /\ out = <<"erase", "status">>

====
